---- MODULE Spec2Model ----
(***************************************************************************)
(* A model of seamlyDependencies.py: the categorizers that fill            *)
(* objects_by_type from the elements of a pattern document, the implicit   *)
(* lines synthesized for some point kinds, the expansion of operations,    *)
(* the dependency extraction loop with its formula tokenizer, and the two  *)
(* graph queries.                                                          *)
(*                                                                         *)
(* Representation.  A Python str is a TLA+ string; None is the reserved    *)
(* string None, which no input uses, and Str gives its f-string rendering. *)
(* A Python dict, whose iteration order is its insertion order, is a       *)
(* sequence of <<key, value>> pairs.  A formula is a sequence of one       *)
(* character strings, so that the tokenizer works on characters;           *)
(* Characters gives the characters of the strings of the documents.        *)
(***************************************************************************)
EXTENDS Integers, Sequences, FiniteSets, TLC

VARIABLES
    objects_by_type,         \* dict: tag -> dict: id -> dict: attribute -> value
    dependencies,            \* dict: id -> [name, dependencies: list of <<dep_id, dep_name>>]
    block_id_counter,
    measurement_id_counter,
    var_id_counter,
    next_id,                 \* the document's next unused native id
    n_elements,              \* elements of the document walked so far
    n_referring,             \* those of them that are not plain points
    element,                 \* the element handed to the last categorizer call
    pc,                      \* "categorize", "extract", "done", "crashed", or a query's position
    raised,                  \* what ended the run: None, or the exception / exit
    formula,                 \* the formula handed to the tokenizer
    dep_table,               \* the dependencies argument of a graph query
    target_var,              \* the target_var argument of a graph query
    call_stack,              \* find_variable_dependencies: the frames of the recursion
    returned,                \* the value the last query returned
    allocated,               \* the ids the three counters have given out, in order
    document,                \* the elements walked so far, in document order
    results                  \* find_variable_dependencies: what the finished calls returned

vars == <<objects_by_type, dependencies, block_id_counter, measurement_id_counter,
          var_id_counter, next_id, n_elements, n_referring, element, pc, raised,
          formula, dep_table, target_var, call_stack, returned, allocated, document,
          results>>

----------------------------------------------------------------------------
(* Bounds of the model *)

MaxElements == 3
MaxReferring == 1
MaxItems == 2
MaxEdges == 3
MaxWords == 3

----------------------------------------------------------------------------
(* Python values *)

None == "<None>"

Str(v) == IF v = None THEN "None" ELSE v

Truthy(v) == v # None /\ v # ""

Min(S) == CHOOSE x \in S : \A y \in S : x <= y

----------------------------------------------------------------------------
(* dict: a sequence of <<key, value>> in insertion order *)

Keys(d) == [i \in 1..Len(d) |-> d[i][1]]

KeySet(d) == { d[i][1] : i \in 1..Len(d) }

HasKey(d, k) == \E i \in 1..Len(d) : d[i][1] = k

Get(d, k, default) ==
    IF HasKey(d, k) THEN d[CHOOSE i \in 1..Len(d) : d[i][1] = k][2] ELSE default

Put(d, k, v) ==
    IF HasKey(d, k)
    THEN [i \in 1..Len(d) |-> IF d[i][1] = k THEN <<k, v>> ELSE d[i]]
    ELSE Append(d, <<k, v>>)

Pop(d, k) == SelectSeq(d, LAMBDA p : p[1] # k)

----------------------------------------------------------------------------
(* The module's lists *)

object_tags ==
    << "root", "measurements", "m", "variables", "variable", "draftBlock",
       "calculation", "point", "line", "spline", "arc", "elArc", "operation",
       "rotation", "path", "nodes", "node", "pieces", "piece", "data", "line",
       "patternInfo", "grainline", "iPaths", "iPath", "record", "anchors",
       "group", "item" >>

display_attributes ==
    { "implicit", "description", "mx", "my", "x", "y", "lineColor", "lineType",
      "lineWeight", "showPointName", "penStyle", "alias", "color", "crossPoint" }

id_attributes ==
    { "basePoint", "block", "center", "center1", "center2", "c1Center",
      "c2Center", "curve", "point1", "point2", "point3", "point4", "firstPoint",
      "secondPoint", "thirdPoint", "p1Line", "p2Line", "p1Line1", "p2Line1",
      "p1Line2", "p2Line2", "op" }

formula_attributes ==
    { "angle", "angle1", "angle2", "center", "center1", "center2", "c1Radius",
      "c2Radius", "formula", "length", "length1", "length2", "radius",
      "radius1", "radius2", "rotation", "width" }

----------------------------------------------------------------------------
(* objects_by_type, a defaultdict(dict): reading objects_by_type[tag]      *)
(* inserts an empty dict under a tag that is not there yet.                *)

Touch(objs, tag) == IF HasKey(objs, tag) THEN objs ELSE Append(objs, <<tag, <<>> >>)

RECURSIVE TouchTags(_, _)
TouchTags(objs, n) ==
    IF n = 0 THEN objs ELSE Touch(TouchTags(objs, n - 1), object_tags[n])

Registered(objs, tag, id) == HasKey(objs, tag) /\ HasKey(Get(objs, tag, <<>>), id)

Record(objs, tag, id) == Get(Get(objs, tag, <<>>), id, <<>>)

RegisteredIds(objs) ==
    UNION { { objs[i][2][j][1] : j \in 1..Len(objs[i][2]) } : i \in 1..Len(objs) }

\* a lookup that answers for an id that is not registered, as its docstring has it
lookup_name_by_id_or_unknown(object_id, objs) ==
    LET hits == { i \in 1..Len(object_tags) : Registered(objs, object_tags[i], object_id) }
    IN  IF hits = {}
        THEN [ objects  |-> TouchTags(objs, Len(object_tags)),
               raised   |-> None,
               obj_tag  |-> "unknown",
               obj_name |-> "Unknown_" \o object_id ]
        ELSE LET i == Min(hits)
             IN  [ objects  |-> TouchTags(objs, i),
                   raised   |-> None,
                   obj_tag  |-> object_tags[i],
                   obj_name |-> Get(Record(objs, object_tags[i], object_id), "name", None) ]

lookup_name_by_id(object_id, objs) ==
    LET hits == { i \in 1..Len(object_tags) : Registered(objs, object_tags[i], object_id) }
    IN  IF hits = {}
        THEN \* the loop ends on the last tag and obj_name was never bound
             [ objects  |-> TouchTags(objs, Len(object_tags)),
               raised   |-> "UnboundLocalError",
               obj_tag  |-> object_tags[Len(object_tags)],
               obj_name |-> None ]
        ELSE LET i == Min(hits)
             IN  [ objects  |-> TouchTags(objs, i),
                   raised   |-> None,
                   obj_tag  |-> object_tags[i],
                   obj_name |-> Get(Record(objs, object_tags[i], object_id), "name", None) ]

Filtered(attrib) == SelectSeq(attrib, LAMBDA p : p[1] \notin display_attributes)

add_to_objects_by_type(obj_tag, obj_id, attrib, name, objs) ==
    LET touched == Touch(objs, obj_tag)
        rec     == Put(Filtered(attrib), "name", name)
    IN  Put(touched, obj_tag, Put(Get(touched, obj_tag, <<>>), obj_id, rec))

RECURSIVE CopyAttributes(_, _)
CopyAttributes(new, attrib) ==
    IF attrib = <<>> THEN new
    ELSE CopyAttributes(Put(new, Head(attrib)[1], Head(attrib)[2]), Tail(attrib))

\* the attrib of the new element
create_filtered_element(attrib, obj_id, name) ==
    CopyAttributes(<< <<"id", obj_id>>, <<"name", name>> >>, Filtered(attrib))

----------------------------------------------------------------------------
(* The categorizers.  An element is [tag, attrib, source, destination]:    *)
(* attrib is the dict of its attributes in document order, source and      *)
(* destination the idObject values of the items of an operation.  A        *)
(* categorizer gives [objects, raised]: the registry it leaves behind and  *)
(* the exception that ended it, or None.                                   *)

Attr(attrib, k) == Get(attrib, k, None)

RECURSIVE EndpointNames(_, _, _, _)
EndpointNames(points, first_point_id, second_point_id, names) ==
    IF points = <<>> THEN names
    ELSE LET point_id    == Head(points)[1]
             point_attrs == Head(points)[2]
         IN  EndpointNames(Tail(points), first_point_id, second_point_id,
                 IF point_id = first_point_id
                 THEN [names EXCEPT !.first = Attr(point_attrs, "name")]
                 ELSE IF point_id = second_point_id
                 THEN [names EXCEPT !.second = Attr(point_attrs, "name")]
                 ELSE names)

LineName(attrib, objs) ==
    LET obj_id          == Attr(attrib, "id")
        first_point_id  == Attr(attrib, "firstPoint")
        second_point_id == Attr(attrib, "secondPoint")
        names == EndpointNames(Get(objs, "point", <<>>), first_point_id, second_point_id,
                               [first |-> None, second |-> None])
    IN  IF Truthy(first_point_id) /\ Truthy(second_point_id)
        THEN IF Truthy(names.first) /\ Truthy(names.second)
             THEN "Line_" \o names.first \o "_" \o names.second
             ELSE "line" \o Str(obj_id)
        ELSE "line" \o Str(obj_id)

categorize_line(el, objs) ==
    LET obj_id == Attr(el.attrib, "id")
        name   == LineName(el.attrib, objs)
    IN  [ objects |-> add_to_objects_by_type(el.tag, obj_id,
                          create_filtered_element(el.attrib, obj_id, name), name, objs),
          raised  |-> None ]

\* the attrib of an implicit line element
ImplicitLine(line_id, line_name, first_point_id, second_point_id) ==
    << <<"id", line_id>>, <<"name", line_name>>, <<"firstPoint", first_point_id>>,
       <<"secondPoint", second_point_id>>, <<"implicit", "True">> >>

process_intersectXY_alongLinepoint(attrib, obj_id, obj_name, objs) ==
    LET type            == Attr(attrib, "type")
        line_id_prefix  == "Line_" \o Str(type) \o "_" \o Str(obj_id) \o "_"
        first_point_id  == Attr(attrib, "firstPoint")
        second_point_id == Attr(attrib, "secondPoint")
    IN  IF type \notin {"intersectXY", "alongLine"}
        THEN [objects |-> objs, raised |-> "exit"]
        ELSE IF ~(Truthy(first_point_id) /\ Truthy(second_point_id))
        THEN [objects |-> objs, raised |-> None]
        ELSE LET l1 == lookup_name_by_id(first_point_id, objs)
                 l2 == lookup_name_by_id(second_point_id, l1.objects)
             IN  IF l1.raised # None THEN [objects |-> l1.objects, raised |-> l1.raised]
                 ELSE IF l2.raised # None THEN [objects |-> l2.objects, raised |-> l2.raised]
                 ELSE IF ~(Truthy(l1.obj_name) /\ Truthy(l2.obj_name))
                 THEN [objects |-> l2.objects, raised |-> None]
                 ELSE LET line_id_1   == line_id_prefix \o "1"
                          line_id_2   == line_id_prefix \o "2"
                          line_name_1 == "Line_" \o l1.obj_name \o "_" \o Str(obj_name)
                          line_name_2 == "Line_" \o l2.obj_name \o "_" \o Str(obj_name)
                          with_1 == add_to_objects_by_type("line", line_id_1,
                                        ImplicitLine(line_id_1, line_name_1, first_point_id, obj_id),
                                        line_name_1, l2.objects)
                      IN  [ objects |-> add_to_objects_by_type("line", line_id_2,
                                            ImplicitLine(line_id_2, line_name_2, second_point_id, obj_id),
                                            line_name_2, with_1),
                            raised  |-> None ]

\* process_endLine_point and process_lineIntersectAxis_point differ in the id prefix only
BasePointLine(line_kind, attrib, obj_id, obj_name, objs) ==
    LET base_id == Attr(attrib, "basePoint")
    IN  IF ~Truthy(base_id)
        THEN [objects |-> objs, raised |-> None]
        ELSE LET l == lookup_name_by_id(base_id, objs)
             IN  IF l.raised # None THEN [objects |-> l.objects, raised |-> l.raised]
                 ELSE IF ~Truthy(l.obj_name)
                 THEN [objects |-> l.objects, raised |-> None]
                 ELSE LET line_id   == "Line_" \o line_kind \o "_" \o base_id \o "_" \o Str(obj_id)
                          line_name == "Line_" \o l.obj_name \o "_" \o Str(obj_name)
                      IN  [ objects |-> add_to_objects_by_type("line", line_id,
                                            ImplicitLine(line_id, line_name, base_id, obj_id),
                                            line_name, l.objects),
                            raised  |-> None ]

process_endLine_point(attrib, obj_id, obj_name, objs) ==
    BasePointLine("endLine", attrib, obj_id, obj_name, objs)

\* a point processor that registers no line
NoLineSynthesized(attrib, obj_id, obj_name, objs) == [objects |-> objs, raised |-> None]

process_lineIntersectAxis_point(attrib, obj_id, obj_name, objs) ==
    BasePointLine("lineIntersectAxis", attrib, obj_id, obj_name, objs)

\* the attrib of the element it returns
process_single_point(attrib, objs) ==
    LET draft_blocks == Get(objs, "draftBlock", <<>>)
    IN  IF draft_blocks # <<>>
        THEN Put(attrib, "block", draft_blocks[Len(draft_blocks)][1])
        ELSE attrib

\* the name under which categorize_point registers the point
PointName(attrib) ==
    IF Attr(attrib, "name") = None THEN "Point_" \o Str(Attr(attrib, "id"))
    ELSE Attr(attrib, "name")

\* the name categorize_point hands to the process_* functions
PointNameForLines(attrib) == Attr(attrib, "name")

categorize_point(el, objs) ==
    LET obj_id      == Attr(el.attrib, "id")
        obj_type    == Attr(el.attrib, "type")
        name        == PointName(el.attrib)
        new_element == create_filtered_element(el.attrib, obj_id, name)
        new_attrib  == IF obj_type = "single" THEN process_single_point(new_element, objs)
                       ELSE new_element
        with_point  == add_to_objects_by_type(el.tag, obj_id, new_attrib, name, objs)
        obj_name    == PointNameForLines(el.attrib)
    IN  CASE obj_type \in {"intersectXY", "alongLine"} ->
                 process_intersectXY_alongLinepoint(el.attrib, obj_id, obj_name, with_point)
          [] obj_type = "endLine" ->
                 process_endLine_point(el.attrib, obj_id, obj_name, with_point)
          [] obj_type = "lineIntersectAxis" ->
                 process_lineIntersectAxis_point(el.attrib, obj_id, obj_name, with_point)
          [] OTHER -> [objects |-> with_point, raised |-> None]

\* the lookups of the source items, in order, up to the first that raises
RECURSIVE SourceLookups(_, _)
SourceLookups(source, acc) ==
    IF source = <<>> \/ acc.raised # None THEN acc
    ELSE LET l == lookup_name_by_id(Head(source), acc.objects)
         IN  SourceLookups(Tail(source),
                 IF l.raised # None
                 THEN [acc EXCEPT !.objects = l.objects, !.raised = l.raised]
                 ELSE [ objects      |-> l.objects,
                        raised       |-> None,
                        source_types |-> Append(acc.source_types, l.obj_tag),
                        source_names |-> Append(acc.source_names, l.obj_name) ])

\* the record of destination item i is registered under source_types[i]
DestinationTag(source_types, i) == source_types[i]

\* the destination items from position i on; source_types[i] raises IndexError
\* when the source items are fewer
RECURSIVE Destinations(_, _, _, _, _, _, _)
Destinations(destination, i, source_types, source_names, obj_id, obj_suffix, objs) ==
    IF i > Len(destination) THEN [objects |-> objs, raised |-> None]
    ELSE IF i > Len(source_types) THEN [objects |-> objs, raised |-> "IndexError"]
    ELSE LET dest_id     == destination[i]
             dest_type   == DestinationTag(source_types, i)
             dest_name   == Str(source_names[i]) \o Str(obj_suffix)
             new_element == Pop(Put(create_filtered_element(<< <<"idObject", dest_id>> >>,
                                                            dest_id, dest_name),
                                    "op", obj_id),
                                "idObject")
         IN  Destinations(destination, i + 1, source_types, source_names, obj_id, obj_suffix,
                          add_to_objects_by_type(dest_type, dest_id, new_element, dest_name, objs))

categorize_operation(el, objs) ==
    LET obj_id     == Attr(el.attrib, "id")
        obj_type   == Attr(el.attrib, "type")
        obj_suffix == Attr(el.attrib, "suffix")
        name       == obj_suffix
        attrib     == Put(el.attrib, "name", name)
        with_op    == add_to_objects_by_type(obj_type, obj_id,
                          create_filtered_element(attrib, obj_id, name), name, objs)
        src        == SourceLookups(el.source,
                          [ objects |-> with_op, raised |-> None,
                            source_types |-> <<>>, source_names |-> <<>> ])
    IN  IF src.raised # None THEN [objects |-> src.objects, raised |-> src.raised]
        ELSE Destinations(el.destination, 1, src.source_types, src.source_names,
                          obj_id, obj_suffix, src.objects)

----------------------------------------------------------------------------
(* The categorizers that use the id counters.  Their state is the record   *)
(* [objects, raised, block_id_counter, measurement_id_counter,             *)
(* var_id_counter, allocated].                                             *)

\* the characters of the strings that the documents of the model use as
\* variable names and formulas
CharacterTable ==
    << <<"", <<>> >>,
       <<"#_h", <<"#", "_", "h">> >>,
       <<"##h", <<"#", "#", "h">> >>,
       <<"v", <<"v">> >>,
       <<"M", <<"M">> >>,
       <<"M+M", <<"M", "+", "M">> >>,
       <<"x", <<"x">> >> >>

Characters(str) ==
    CharacterTable[CHOOSE i \in 1..Len(CharacterTable) : CharacterTable[i][1] = str][2]

\* an id a counter has given out
Allocation(counter, value) == [counter |-> counter, value |-> value]

\* obj_name[0:2] in ['#_', '##']
IsHeader(obj_name) ==
    LET chars == Characters(obj_name)
    IN  Len(chars) >= 2 /\ SubSeq(chars, 1, 2) \in { <<"#", "_">>, <<"#", "#">> }

\* a categorizer for which a header takes a value of the counter too
categorize_variable_counting_headers(el, st) ==
    LET obj_name    == Attr(el.attrib, "name")
        obj_id      == ToString(st.var_id_counter)
        new_element == create_filtered_element(el.attrib, obj_id, obj_name)
    IN  IF IsHeader(obj_name) THEN [st EXCEPT !.var_id_counter = @ - 1]
        ELSE [st EXCEPT
                 !.var_id_counter = @ - 1,
                 !.allocated = Append(@, Allocation("variable", obj_id)),
                 !.objects = add_to_objects_by_type(el.tag, obj_id, new_element, obj_name, @)]

categorize_variable(el, st) ==
    LET obj_name    == Attr(el.attrib, "name")
        obj_id      == ToString(st.var_id_counter)
        new_element == create_filtered_element(el.attrib, obj_id, obj_name)
    IN  IF obj_name = None THEN [st EXCEPT !.raised = "TypeError"]
        ELSE IF IsHeader(obj_name) THEN st
        ELSE [st EXCEPT
                 !.var_id_counter = @ - 1,
                 !.allocated = Append(@, Allocation("variable", obj_id)),
                 !.objects = add_to_objects_by_type(el.tag, obj_id, new_element, obj_name, @)]

categorize_draftBlock(el, st) ==
    LET obj_id      == "block_id_" \o ToString(st.block_id_counter)
        obj_name    == Attr(el.attrib, "name")
        name        == IF Truthy(obj_name) THEN obj_name ELSE "Block" \o obj_id
        new_element == create_filtered_element(el.attrib, obj_id, name)
    IN  [st EXCEPT
            !.block_id_counter = @ + 1,
            !.allocated = Append(@, Allocation("block", obj_id)),
            !.objects = add_to_objects_by_type(el.tag, obj_id, new_element, name, @)]

\* a categorizer that leaves the measurement counter where it was
categorize_measurement_reusing(el, st) ==
    LET obj_id      == "m_id_" \o ToString(st.measurement_id_counter)
        obj_name    == Attr(el.attrib, "name")
        name        == IF Truthy(obj_name) THEN obj_name ELSE "m" \o obj_id
        new_element == create_filtered_element(el.attrib, obj_id, name)
    IN  [st EXCEPT
            !.allocated = Append(@, Allocation("measurement", obj_id)),
            !.objects = add_to_objects_by_type(el.tag, obj_id, new_element, name, @)]

categorize_measurement(el, st) ==
    LET obj_id      == "m_id_" \o ToString(st.measurement_id_counter)
        obj_name    == Attr(el.attrib, "name")
        name        == IF Truthy(obj_name) THEN obj_name ELSE "m" \o obj_id
        new_element == create_filtered_element(el.attrib, obj_id, name)
    IN  [st EXCEPT
            !.measurement_id_counter = @ + 1,
            !.allocated = Append(@, Allocation("measurement", obj_id)),
            !.objects = add_to_objects_by_type(el.tag, obj_id, new_element, name, @)]

\* the attribute names of the model's splines that start with 'point'
SplinePointAttributes == {"point1", "point2", "point3", "point4"}

\* the names of the point ids that are registered, in attribute order; for an
\* id that is not, the prompt is answered and the loop goes on ('exit' is
\* not called)
RECURSIVE name_values(_, _)
name_values(attrib, points) ==
    IF attrib = <<>> THEN <<>>
    ELSE LET attr     == Head(attrib)[1]
             id_value == Head(attrib)[2]
         IN  IF attr \in SplinePointAttributes /\ HasKey(points, id_value)
             THEN <<Attr(Get(points, id_value, <<>>), "name")>>
                      \o name_values(Tail(attrib), points)
             ELSE name_values(Tail(attrib), points)

categorize_spline(el, objs) ==
    LET obj_id     == Attr(el.attrib, "id")
        spl_type   == Attr(el.attrib, "type")
        spl_prefix == IF spl_type = "cubicBezier" THEN "SplPath" ELSE "Spl"
        looked_up  == \E i \in 1..Len(el.attrib) : el.attrib[i][1] \in SplinePointAttributes
        touched    == IF looked_up THEN Touch(objs, "point") ELSE objs
        names      == name_values(el.attrib, Get(objs, "point", <<>>))
    IN  IF names = <<>> THEN [objects |-> touched, raised |-> "IndexError"]
        ELSE LET name == spl_prefix \o "_" \o Str(names[1]) \o "_" \o Str(names[Len(names)])
                 new_element == create_filtered_element(el.attrib, obj_id, name)
             IN  [ objects |-> add_to_objects_by_type(el.tag, obj_id, new_element, name, touched),
                   raised  |-> None ]

\* a categorizer that leaves the counters alone
Merge(st, result) == [st EXCEPT !.objects = result.objects, !.raised = result.raised]

\* the dispatch of categorize_elements on the tag of a leaf element
categorize_elements(el, st) ==
    CASE el.tag = "line"       -> Merge(st, categorize_line(el, st.objects))
      [] el.tag = "point"      -> Merge(st, categorize_point(el, st.objects))
      [] el.tag = "variable"   -> categorize_variable(el, st)
      [] el.tag = "draftBlock" -> categorize_draftBlock(el, st)
      [] el.tag = "m"          -> categorize_measurement(el, st)
      [] el.tag = "spline"     -> Merge(st, categorize_spline(el, st.objects))
      [] el.tag = "operation"  -> Merge(st, categorize_operation(el, st.objects))
      [] OTHER                 -> [st EXCEPT !.raised = "exit"]

----------------------------------------------------------------------------
(* The formula tokenizer of the dependency extraction loop.  A formula and *)
(* a segment are sequences of characters.                                  *)

RECURSIVE Join(_)
Join(chars) == IF chars = <<>> THEN "" ELSE Head(chars) \o Join(Tail(chars))

SplitCharacters == {"+", "-", "*", "/", "(", ")", "<", ">", "=", "?", ":", ";"}

Whitespace == {" ", "\t", "\n", "\r"}

\* re.split(r'[\+\-\*/\(\)\<\>\=\?\:\;]', formula)
RECURSIVE re_split(_, _, _)
re_split(chars, current, pieces) ==
    IF chars = <<>> THEN Append(pieces, current)
    ELSE IF Head(chars) \in SplitCharacters
    THEN re_split(Tail(chars), <<>>, Append(pieces, current))
    ELSE re_split(Tail(chars), Append(current, Head(chars)), pieces)

RECURSIVE lstrip(_)
lstrip(chars) ==
    IF chars # <<>> /\ Head(chars) \in Whitespace THEN lstrip(Tail(chars)) ELSE chars

RECURSIVE rstrip(_)
rstrip(chars) ==
    IF chars # <<>> /\ chars[Len(chars)] \in Whitespace
    THEN rstrip(SubSeq(chars, 1, Len(chars) - 1)) ELSE chars

strip(chars) == rstrip(lstrip(chars))

\* [segment.strip() for segment in segments if segment.strip()]
RECURSIVE StrippedSegments(_)
StrippedSegments(pieces) ==
    IF pieces = <<>> THEN <<>>
    ELSE IF strip(Head(pieces)) # <<>>
    THEN <<strip(Head(pieces))>> \o StrippedSegments(Tail(pieces))
    ELSE StrippedSegments(Tail(pieces))

startswith(chars, prefix) ==
    Len(chars) >= Len(prefix) /\ SubSeq(chars, 1, Len(prefix)) = prefix

UpperCase ==
    << "A", "B", "C", "D", "E", "F", "G", "H", "I", "J", "K", "L", "M",
       "N", "O", "P", "Q", "R", "S", "T", "U", "V", "W", "X", "Y", "Z" >>

LowerCase ==
    << "a", "b", "c", "d", "e", "f", "g", "h", "i", "j", "k", "l", "m",
       "n", "o", "p", "q", "r", "s", "t", "u", "v", "w", "x", "y", "z" >>

lower(chars) ==
    [i \in 1..Len(chars) |->
        IF \E k \in 1..26 : UpperCase[k] = chars[i]
        THEN LowerCase[CHOOSE k \in 1..26 : UpperCase[k] = chars[i]]
        ELSE chars[i]]

MathOperators == {"+", "-", "*", "/", "(", ")", "<", ">", "=", "?", ":", ";"}

MathFunctions == {"max", "min", "abs", "sqrt", "sin", "cos", "tan", "log", "exp"}

NumberCharacters == {"0", "1", "2", "3", "4", "5", "6", "7", "8", "9", "."}

\* re.fullmatch(r'[0-9.]+', segment)
IsNumber(segment) ==
    segment # <<>> /\ \A i \in 1..Len(segment) : segment[i] \in NumberCharacters

AngleLine == <<"A", "n", "g", "l", "e", "L", "i", "n", "e">>

\* segment = segment[5:] when it starts with 'AngleLine'
StripAngle(segment) ==
    IF startswith(segment, AngleLine) THEN SubSeq(segment, 6, Len(segment)) ELSE segment

\* a function check that compares the segment as written
IsMathFunctionAsWritten(segment) == Join(segment) \in MathFunctions

IsMathFunction(segment) == Join(lower(segment)) \in MathFunctions

\* whether the loop skips the segment (continue) before it looks the symbol up
Skipped(segment) ==
    \/ Join(segment) \in MathOperators
    \/ IsMathFunction(segment)
    \/ IsNumber(segment)

Segments(chars) == StrippedSegments(re_split(chars, <<>>, <<>>))

\* the segments that reach the measurement and name lookups, as the loop holds them
RECURSIVE SymbolSegments(_)
SymbolSegments(segments) ==
    IF segments = <<>> THEN <<>>
    ELSE LET segment == StripAngle(Head(segments))
         IN  IF Skipped(segment) THEN SymbolSegments(Tail(segments))
             ELSE <<segment>> \o SymbolSegments(Tail(segments))

----------------------------------------------------------------------------
(* The dependency extraction loop of main.  Its state is [objects,         *)
(* dependencies, measurement_id_counter, allocated, raised]; a step that   *)
(* finds raised set leaves the state as it is, as the run has ended there. *)

\* the first column of the measurement catalog
measurements_csv == <<"M">>

find_in_csv_first_column(search_string) ==
    \E i \in 1..Len(measurements_csv) : measurements_csv[i] = Join(strip(search_string))

\* attribute names of the model's elements that start or end with 'point' or 'Point'
PointAttributeNames ==
    { "point1", "point2", "point3", "point4", "basePoint", "firstPoint", "secondPoint",
      "thirdPoint" }

NewEntry(obj_name) == << <<"name", obj_name>>, <<"dependencies", <<>> >> >>

\* dependencies[obj_id]['dependencies'].append(dependency_pair)
AppendDependency(deps, obj_id, dependency_pair) ==
    LET entry == Get(deps, obj_id, <<>>)
    IN  Put(deps, obj_id,
            Put(entry, "dependencies", Append(Get(entry, "dependencies", <<>>), dependency_pair)))

\* the inner loop of the name search over the items of one tag:
\* "none" (no item has the name), "exit" (an item without a name comes first),
\* or the id of the first item that has the name
RECURSIVE FirstNamed(_, _)
FirstNamed(items, segment) ==
    IF items = <<>> THEN [outcome |-> "none", id |-> None]
    ELSE LET name == Attr(Head(items)[2], "name")
         IN  IF name = None THEN [outcome |-> "exit", id |-> None]
             ELSE IF Join(segment) = name THEN [outcome |-> "found", id |-> Head(items)[1]]
             ELSE FirstNamed(Tail(items), segment)

\* the name search over the tags from position t on
RECURSIVE NameSearch(_, _, _, _, _)
NameSearch(st, obj_id, segment, t, found) ==
    IF t > Len(st.objects)
    THEN IF found THEN st ELSE [st EXCEPT !.raised = "exit"]
    ELSE LET hit == FirstNamed(st.objects[t][2], segment)
         IN  CASE hit.outcome = "exit"  -> [st EXCEPT !.raised = "exit"]
               [] hit.outcome = "found" ->
                      NameSearch([st EXCEPT !.dependencies =
                                      AppendDependency(@, obj_id, <<hit.id, Join(segment)>>)],
                                 obj_id, segment, t + 1, TRUE)
               [] OTHER -> NameSearch(st, obj_id, segment, t + 1, found)

RECURSIVE ExtractSegments(_, _, _)
ExtractSegments(st, obj_id, segments) ==
    IF segments = <<>> \/ st.raised # None THEN st
    ELSE LET segment == StripAngle(Head(segments))
         IN  ExtractSegments(
                 IF Skipped(segment) THEN st
                 ELSE IF find_in_csv_first_column(segment)
                 THEN \* the pair is built and not appended
                      [st EXCEPT
                          !.measurement_id_counter = @ + 1,
                          !.allocated = Append(@, Allocation("measurement",
                                                   ToString(st.measurement_id_counter)))]
                 ELSE NameSearch(st, obj_id, segment, 1, FALSE),
                 obj_id, Tail(segments))

ExtractAttribute(st, obj_id, attr_name, attr_value) ==
    IF attr_name \in {"id", "name", "type", "suffix"} THEN st
    ELSE IF attr_name \in id_attributes \/ attr_name \in PointAttributeNames
    THEN LET l == lookup_name_by_id(attr_value, st.objects)
         IN  IF l.raised # None
             THEN [st EXCEPT !.objects = l.objects, !.raised = l.raised]
             ELSE [st EXCEPT !.objects = l.objects,
                             !.dependencies = AppendDependency(@, obj_id, <<attr_value, l.obj_name>>)]
    ELSE IF attr_name \in formula_attributes
    THEN ExtractSegments(st, obj_id, Segments(Characters(attr_value)))
    ELSE [st EXCEPT !.raised = "exit"]

RECURSIVE ExtractAttributes(_, _, _)
ExtractAttributes(st, obj_id, obj_data) ==
    IF obj_data = <<>> \/ st.raised # None THEN st
    ELSE ExtractAttributes(
             ExtractAttribute(st, obj_id, Head(obj_data)[1], Head(obj_data)[2]),
             obj_id, Tail(obj_data))

\* the objects of one tag of the snapshot
RECURSIVE ExtractObjects(_, _)
ExtractObjects(st, objs) ==
    IF objs = <<>> \/ st.raised # None THEN st
    ELSE LET obj_id   == Head(objs)[1]
             obj_data == Head(objs)[2]
             started  == [st EXCEPT !.dependencies =
                              Put(@, obj_id, NewEntry(Attr(obj_data, "name")))]
         IN  ExtractObjects(ExtractAttributes(started, obj_id, obj_data), Tail(objs))

\* the loop over dict(objects_by_type).items(), a copy made when the loop starts
RECURSIVE ExtractTags(_, _)
ExtractTags(st, snapshot) ==
    IF snapshot = <<>> \/ st.raised # None THEN st
    ELSE ExtractTags(ExtractObjects(st, Head(snapshot)[2]), Tail(snapshot))

\* the second pass on the registry objs
extract_dependencies(objs, deps, counter, ids) ==
    ExtractTags([ objects                |-> objs,
                  dependencies           |-> deps,
                  measurement_id_counter |-> counter,
                  allocated              |-> ids,
                  raised                 |-> None ],
                objs)

Extraction ==
    extract_dependencies(objects_by_type, dependencies, measurement_id_counter, allocated)

----------------------------------------------------------------------------
(* The graph queries.  The value of a table entry is a Python container:   *)
(* a list of names, or a dict as main builds it.                           *)

PyList(items) == [type |-> "list", value |-> items]

PyDict(d) == [type |-> "dict", value |-> d]

\* x in container: an item of a list, a key of a dict
Contains(container, x) ==
    IF container.type = "dict" THEN HasKey(container.value, x)
    ELSE \E i \in 1..Len(container.value) : container.value[i] = x

\* a loop that visits the first item only
IterateFirstOnly(container) ==
    IF container.type = "dict"
    THEN IF Keys(container.value) = <<>> THEN <<>> ELSE <<Head(Keys(container.value))>>
    ELSE IF container.value = <<>> THEN <<>> ELSE <<Head(container.value)>>

\* what a for loop over the container visits: the items of a list, the keys of a dict
Iterate(container) ==
    IF container.type = "dict"
    THEN Keys(container.value)
    ELSE container.value

find_variables_using_target(var, table) ==
    LET uses(item) == Contains(item[2], var)
    IN  [i \in 1..Len(SelectSeq(table, uses)) |-> SelectSeq(table, uses)[i][1]]

\* the dependencies dict of main as the queries receive it
BuiltTable ==
    [i \in 1..Len(dependencies) |-> <<dependencies[i][1], PyDict(dependencies[i][2])>>]

----------------------------------------------------------------------------
(* The documents of the model.  Native ids are distinct: an element with a *)
(* native id takes the next unused one.  A reference is the id of a        *)
(* registered object, an id that nothing has (UnknownId), or is missing.   *)

UnknownId == "99"

NativeId(n) == ToString(n)

Opt(k, v) == IF v = None THEN <<>> ELSE << <<k, v>> >>

NativeIds == { NativeId(n) : n \in 1..(next_id - 1) }

References == NativeIds \cup {UnknownId, None}

PointNames(id) == {None, "", "P" \o id}

OperationTypes == {"rotation", "moving"}

Suffixes == {None, "2"}

Element(tag, attrib) == [tag |-> tag, attrib |-> attrib, source |-> <<>>, destination |-> <<>>]

PointAttributes(id, name, type) ==
    << <<"id", id>> >> \o Opt("name", name) \o Opt("type", type)

PlainPointElements ==
    LET id == NativeId(next_id)
    IN  { Element("point", PointAttributes(id, name, type)) :
              name \in PointNames(id), type \in {None, "single"} }

PointElements ==
    LET id == NativeId(next_id)
    IN  PlainPointElements
        \cup { Element("point", PointAttributes(id, name, type) \o Opt("basePoint", base)) :
                  name \in PointNames(id), type \in {"endLine", "lineIntersectAxis"},
                  base \in References }
        \cup { Element("point", PointAttributes(id, name, type)
                                \o Opt("firstPoint", first) \o Opt("secondPoint", second)) :
                  name \in PointNames(id), type \in {"intersectXY", "alongLine"},
                  first \in References, second \in References }

LineElements ==
    LET id == NativeId(next_id)
    IN  { Element("line", << <<"id", id>> >> \o
                          (IF swapped
                           THEN Opt("secondPoint", second) \o Opt("firstPoint", first)
                           ELSE Opt("firstPoint", first) \o Opt("secondPoint", second))) :
            <<first, second, swapped>> \in
                { c \in References \X References \X BOOLEAN :
                    c[3] => c[1] # None /\ c[2] # None } }

\* sequences of length n over S
Lists(S, n) == [1..n -> S]

\* an operation without items
PlainOperationElements ==
    LET id == NativeId(next_id)
    IN  { [ tag         |-> "operation",
            attrib      |-> << <<"id", id>>, <<"type", type>> >> \o Opt("suffix", suffix),
            source      |-> <<>>,
            destination |-> <<>> ] :
            type \in OperationTypes, suffix \in Suffixes }

OperationElements ==
    LET id == NativeId(next_id)
    IN  { [ tag         |-> "operation",
            attrib      |-> << <<"id", id>>, <<"type", type>> >> \o Opt("suffix", suffix),
            source      |-> source,
            destination |-> [i \in 1..n_dest |-> NativeId(next_id + i)] ] :
            <<type, suffix, source, n_dest>> \in
                OperationTypes \X Suffixes
                \X (UNION { Lists(NativeIds, n) : n \in 0..MaxItems })
                \X (0..MaxItems) }

\* a variable carries a name attribute; a header name starts with '#_' or '##'
VariableNames == {"", "#_h", "##h", "v"}

DocumentFormulas == {"M", "M+M", "v", "x"}

\* a variable without a formula
PlainVariableElements ==
    { Element("variable", << <<"name", name>> >>) : name \in VariableNames }

VariableElements ==
    PlainVariableElements
    \cup { Element("variable", << <<"name", name>>, <<"formula", f>> >>) :
              name \in VariableNames, f \in DocumentFormulas }

DraftBlockElements ==
    { Element("draftBlock", Opt("name", name)) : name \in {None, "v"} }

MeasurementElements ==
    { Element("m", Opt("name", name)) : name \in {None, "M"} }

SplineElements ==
    LET id == NativeId(next_id)
    IN  { Element("spline", << <<"id", id>> >> \o Opt("type", type)
                            \o Opt("point1", first) \o Opt("point4", last)) :
              type \in {None, "cubicBezier"}, first \in References, last \in References }

----------------------------------------------------------------------------
(* The run *)

Init ==
    /\ objects_by_type = <<>>
    /\ dependencies = <<>>
    /\ block_id_counter = 1
    /\ measurement_id_counter = 1
    /\ var_id_counter = -1
    /\ next_id = 1
    /\ n_elements = 0
    /\ n_referring = 0
    /\ element = Element(None, <<>>)
    /\ pc = "categorize"
    /\ raised = None
    /\ formula = <<>>
    /\ dep_table = <<>>
    /\ target_var = None
    /\ call_stack = <<>>
    /\ returned = <<>>
    /\ allocated = <<>>
    /\ document = <<>>
    /\ results = <<>>

\* The documents of the model hold at most MaxReferring elements that refer to
\* other objects; the others are plain: a point of no line-synthesizing kind,
\* or an operation without items.
Plain(el) ==
    \/ el.tag = "point" /\ Attr(el.attrib, "type") \in {None, "single"}
    \/ el.tag = "operation" /\ el.source = <<>> /\ el.destination = <<>>
    \/ el.tag = "variable" /\ ~HasKey(el.attrib, "formula")
    \/ el.tag \in {"draftBlock", "m"}

MoreElements == pc = "categorize" /\ n_elements < MaxElements

MoreReferring == MoreElements /\ n_referring < MaxReferring

\* the state the walk has reached
WalkerState ==
    [ objects                |-> objects_by_type,
      raised                 |-> None,
      block_id_counter       |-> block_id_counter,
      measurement_id_counter |-> measurement_id_counter,
      var_id_counter         |-> var_id_counter,
      allocated              |-> allocated ]

\* a walk that starts with the counters where the last run left them
LeftoverWalkerState ==
    [ objects                |-> <<>>,
      raised                 |-> None,
      block_id_counter       |-> block_id_counter,
      measurement_id_counter |-> measurement_id_counter,
      var_id_counter         |-> var_id_counter,
      allocated              |-> <<>> ]

\* the state in which the module starts the walk
InitialWalkerState ==
    [ objects                |-> <<>>,
      raised                 |-> None,
      block_id_counter       |-> 1,
      measurement_id_counter |-> 1,
      var_id_counter         |-> -1,
      allocated              |-> <<>> ]

\* categorize_elements on the elements of a document, up to the first that ends the run
RECURSIVE Walk(_, _)
Walk(doc, st) ==
    IF doc = <<>> \/ st.raised # None THEN st
    ELSE Walk(Tail(doc), categorize_elements(Head(doc), st))

\* both passes on a document: the registry and the graph the run leaves behind
Pipeline(doc, start) ==
    LET walked == Walk(doc, start)
    IN  IF walked.raised # None
        THEN [objects |-> walked.objects, dependencies |-> <<>>]
        ELSE LET extracted == extract_dependencies(walked.objects, <<>>,
                                  walked.measurement_id_counter, walked.allocated)
             IN  [objects |-> extracted.objects, dependencies |-> extracted.dependencies]

\* the native ids an element takes from the document
IdsUsed(el) ==
    IF el.tag \in {"variable", "draftBlock", "m"} THEN 0 ELSE 1 + Len(el.destination)

\* categorize_elements on element el, which leaves the walk in state st
Categorized(el, st) ==
    /\ objects_by_type' = st.objects
    /\ block_id_counter' = st.block_id_counter
    /\ measurement_id_counter' = st.measurement_id_counter
    /\ var_id_counter' = st.var_id_counter
    /\ allocated' = st.allocated
    /\ raised' = st.raised
    /\ pc' = IF st.raised = None THEN "categorize" ELSE "crashed"
    /\ element' = el
    /\ document' = Append(document, el)
    /\ n_elements' = n_elements + 1
    /\ n_referring' = IF Plain(el) THEN n_referring ELSE n_referring + 1
    /\ next_id' = next_id + IdsUsed(el)
    /\ UNCHANGED <<dependencies, formula, dep_table, target_var, call_stack, returned, results>>

\* the step of the walk on one of the elements els
Walked(els) ==
    \E el \in els : \E st \in {categorize_elements(el, WalkerState)} : Categorized(el, st)

CategorizeLine == MoreReferring /\ Walked(LineElements)

CategorizePoint ==
    MoreElements /\ Walked(IF MoreReferring THEN PointElements ELSE PlainPointElements)

CategorizeOperation ==
    MoreElements /\ Walked(IF MoreReferring THEN OperationElements ELSE PlainOperationElements)

CategorizeVariable ==
    MoreElements /\ Walked(IF MoreReferring THEN VariableElements ELSE PlainVariableElements)

CategorizeDraftBlock == MoreElements /\ Walked(DraftBlockElements)

CategorizeMeasurement == MoreElements /\ Walked(MeasurementElements)

CategorizeSpline == MoreReferring /\ Walked(SplineElements)

\* main's second pass, once the walk has returned
ExtractDependencies ==
    /\ pc = "categorize"
    /\ \E st \in {Extraction} :
           /\ objects_by_type' = st.objects
           /\ dependencies' = st.dependencies
           /\ measurement_id_counter' = st.measurement_id_counter
           /\ allocated' = st.allocated
           /\ raised' = st.raised
           /\ pc' = IF st.raised = None THEN "done" ELSE "crashed"
    /\ UNCHANGED <<block_id_counter, var_id_counter, next_id, n_elements, n_referring,
                   element, formula, dep_table, target_var, call_stack, returned,
                   document, results>>

\* analyze_variable's reverse lookup, on the graph main has built
FindVariablesUsingTarget ==
    /\ pc = "done"
    /\ \E y \in KeySet(dependencies) :
           /\ target_var' = y
           /\ dep_table' = BuiltTable
           /\ returned' = find_variables_using_target(y, BuiltTable)
    /\ pc' = "queried"
    /\ UNCHANGED <<objects_by_type, dependencies, block_id_counter, measurement_id_counter,
                   var_id_counter, next_id, n_elements, n_referring, element, raised,
                   formula, call_stack, allocated, document, results>>

\* a second run of the pipeline on the document of the finished run
Rerun ==
    /\ pc \in {"done", "crashed"}
    /\ returned' = Pipeline(document, InitialWalkerState)
    /\ pc' = "rerun"
    /\ UNCHANGED <<objects_by_type, dependencies, block_id_counter, measurement_id_counter,
                   var_id_counter, next_id, n_elements, n_referring, element, raised,
                   formula, dep_table, target_var, call_stack, allocated, document, results>>

\* a call of lookup_name_by_id on the registry the finished run has left
LookupNameById ==
    /\ pc = "done"
    /\ \E object_id \in RegisteredIds(objects_by_type) \cup {UnknownId} :
           \E l \in {lookup_name_by_id(object_id, objects_by_type)} :
               /\ target_var' = object_id
               /\ objects_by_type' = l.objects
               /\ raised' = l.raised
               /\ returned' = IF l.raised = None THEN <<l.obj_tag, l.obj_name>> ELSE returned
    /\ pc' = "looked_up"
    /\ UNCHANGED <<dependencies, block_id_counter, measurement_id_counter, var_id_counter,
                   next_id, n_elements, n_referring, element, formula, dep_table,
                   call_stack, allocated, document, results>>

Next ==
    \/ CategorizeLine
    \/ CategorizePoint
    \/ CategorizeOperation
    \/ CategorizeVariable
    \/ CategorizeDraftBlock
    \/ CategorizeMeasurement
    \/ CategorizeSpline
    \/ ExtractDependencies
    \/ FindVariablesUsingTarget
    \/ Rerun
    \/ LookupNameById

Spec == Init /\ [][Next]_vars

----------------------------------------------------------------------------
(* find_variable_dependencies, one call frame per invocation.  The tables  *)
(* are those of at most MaxEdges edges over Nodes.                         *)

Nodes == {"A", "B", "C"}

NodeOrder == <<"A", "B", "C">>

EdgeLists == UNION { [1..n -> Nodes \X Nodes] : n \in 0..MaxEdges }

DepsOf(edges, node) ==
    LET from(e) == e[1] = node
    IN  [i \in 1..Len(SelectSeq(edges, from)) |-> SelectSeq(edges, from)[i][2]]

\* the table of a list of edges; a node without edges has an empty list when
\* keep_empty, and no entry otherwise
Table(edges, keep_empty) ==
    LET entries == [k \in 1..Len(NodeOrder) |->
                        <<NodeOrder[k], PyList(DepsOf(edges, NodeOrder[k]))>>]
        kept(e) == keep_empty \/ e[2].value # <<>>
    IN  SelectSeq(entries, kept)

Tables == { Table(edges, keep_empty) : edges \in EdgeLists, keep_empty \in BOOLEAN }

\* the frame of a call that has not yet run its first statement
Frame(var, visited) ==
    [ target_var  |-> var,
      visited     |-> visited,
      all_deps    |-> {},
      direct_deps |-> <<>>,
      next        |-> 0,
      at          |-> "entry" ]

Top == call_stack[Len(call_stack)]

Callers == SubSeq(call_stack, 1, Len(call_stack) - 1)

\* a loop that takes what the recursive call returned and stays at the same dep
DeliveredWithoutAdvance(frame, indirect_deps) ==
    [frame EXCEPT !.all_deps = @ \cup indirect_deps]

\* a loop that drops what the recursive call returned
DeliveredNothing(frame, indirect_deps) == [frame EXCEPT !.next = @ + 1]

\* all_deps.update(indirect_deps), and the loop moves to the next dep
Delivered(frame, indirect_deps) ==
    [frame EXCEPT !.all_deps = @ \cup indirect_deps, !.next = @ + 1]

\* the top call returns value to its caller
ReturnValue(value) ==
    IF Callers = <<>>
    THEN /\ call_stack' = <<>>
         /\ returned' = value
         /\ results' = Append(results, value)
         /\ pc' = "done"
    ELSE /\ call_stack' = [Callers EXCEPT ![Len(Callers)] = Delivered(@, value)]
         /\ UNCHANGED <<returned, results, pc>>

ClosureUnchanged ==
    UNCHANGED <<objects_by_type, dependencies, block_id_counter, measurement_id_counter,
                var_id_counter, next_id, n_elements, n_referring, element, raised,
                formula, dep_table, target_var, allocated, document>>

InitClosure ==
    /\ objects_by_type = <<>>
    /\ dependencies = <<>>
    /\ block_id_counter = 1
    /\ measurement_id_counter = 1
    /\ var_id_counter = -1
    /\ next_id = 1
    /\ n_elements = 0
    /\ n_referring = 0
    /\ element = Element(None, <<>>)
    /\ raised = None
    /\ formula = <<>>
    /\ dep_table \in Tables
    /\ target_var \in Nodes
    /\ call_stack = <<Frame(target_var, {})>>
    /\ returned = {}
    /\ allocated = <<>>
    /\ document = <<>>
    /\ results = <<>>
    /\ pc = "running"

\* if target_var in visited: return set()
ReturnVisited ==
    /\ pc = "running"
    /\ Top.at = "entry"
    /\ Top.target_var \in Top.visited
    /\ ReturnValue({})
    /\ ClosureUnchanged

\* visited.add(target_var) up to all_deps.update(direct_deps)
Enter ==
    /\ pc = "running"
    /\ Top.at = "entry"
    /\ Top.target_var \notin Top.visited
    /\ LET direct_deps == Get(dep_table, Top.target_var, PyList(<<>>))
       IN  call_stack' = Append(Callers,
               [Top EXCEPT !.visited     = @ \cup {Top.target_var},
                           !.direct_deps = Iterate(direct_deps),
                           !.all_deps    = {Iterate(direct_deps)[i] :
                                                i \in 1..Len(Iterate(direct_deps))},
                           !.next        = 1,
                           !.at          = "loop"])
    /\ UNCHANGED <<returned, results, pc>>
    /\ ClosureUnchanged

\* find_variable_dependencies(dep, dependencies, visited.copy())
Recurse ==
    /\ pc = "running"
    /\ Top.at = "loop"
    /\ Top.next <= Len(Top.direct_deps)
    /\ call_stack' = Append(call_stack, Frame(Top.direct_deps[Top.next], Top.visited))
    /\ UNCHANGED <<returned, results, pc>>
    /\ ClosureUnchanged

\* return all_deps
Return ==
    /\ pc = "running"
    /\ Top.at = "loop"
    /\ Top.next > Len(Top.direct_deps)
    /\ ReturnValue(Top.all_deps)
    /\ ClosureUnchanged

\* the caller calls once more with the same arguments
CallAgain ==
    /\ pc = "done"
    /\ Len(results) = 1
    /\ call_stack' = <<Frame(target_var, {})>>
    /\ pc' = "running"
    /\ UNCHANGED <<returned, results>>
    /\ ClosureUnchanged

NextClosure ==
    \/ ReturnVisited
    \/ Enter
    \/ Recurse
    \/ Return
    \/ CallAgain

SpecClosure == InitClosure /\ [][NextClosure]_vars

\* a call that can take a step takes it
SpecClosureFair == SpecClosure /\ WF_vars(NextClosure)

----------------------------------------------------------------------------
(* The tokenizer on its own: formulas of at most MaxWords words.           *)

Words ==
    { <<"A">>, <<"B">>, <<"2">>, <<".">>, <<"s", "i", "n">>, <<"S", "I", "N">>,
      <<"+">>, <<"(">>, <<" ">>, <<",">>, AngleLine \o <<"_", "A">> }

Example == <<"A", "+", "B", "*", "2", "-", "s", "i", "n", "(", "C", ")">>

RECURSIVE Concatenation(_)
Concatenation(words) ==
    IF words = <<>> THEN <<>> ELSE Head(words) \o Concatenation(Tail(words))

Formulas ==
    {Example} \cup { Concatenation(words) :
                        words \in UNION { [1..n -> Words] : n \in 0..MaxWords } }

InitTokenizer ==
    /\ objects_by_type = <<>>
    /\ dependencies = <<>>
    /\ block_id_counter = 1
    /\ measurement_id_counter = 1
    /\ var_id_counter = -1
    /\ next_id = 1
    /\ n_elements = 0
    /\ n_referring = 0
    /\ element = Element(None, <<>>)
    /\ raised = None
    /\ formula \in Formulas
    /\ dep_table = <<>>
    /\ target_var = None
    /\ call_stack = <<>>
    /\ returned = <<>>
    /\ allocated = <<>>
    /\ document = <<>>
    /\ results = <<>>
    /\ pc = "tokenize"

\* the segments of the formula that the loop looks up
Tokenize ==
    /\ pc = "tokenize"
    /\ returned' = SymbolSegments(Segments(formula))
    /\ pc' = "tokenized"
    /\ UNCHANGED <<objects_by_type, dependencies, block_id_counter, measurement_id_counter,
                   var_id_counter, next_id, n_elements, n_referring, element, raised,
                   formula, dep_table, target_var, call_stack, allocated, document, results>>

NextTokenizer == Tokenize

SpecTokenizer == InitTokenizer /\ [][NextTokenizer]_vars

----------------------------------------------------------------------------
(* What the claims speak of *)

PointRegistered(id) == Registered(objects_by_type, "point", id)

NameOf(tag, id) == Attr(Record(objects_by_type, tag, id), "name")

Lines == Get(objects_by_type, "line", <<>>)

\* the position of key k in dict d, 0 when it is not there
Position(d, k) == IF HasKey(d, k) THEN CHOOSE i \in 1..Len(d) : d[i][1] = k ELSE 0

\* native ids are handed out in document order
NativeNumber(id) == CHOOSE n \in 1..next_id : NativeId(n) = id

Earlier(a, b) == a \in NativeIds /\ b \in NativeIds /\ NativeNumber(a) < NativeNumber(b)

\* a line of the registry that the engine synthesized
Synthesized(line_id) == line_id \notin NativeIds

\* the tag under which an id is registered
TagOf(id) == objects_by_type[CHOOSE t \in 1..Len(objects_by_type) :
                                 HasKey(objects_by_type[t][2], id)][1]

(* C1: after both passes, a native line L with firstPoint=f then           *)
(* secondPoint=s, f and s two distinct points registered earlier under     *)
(* names F and S, is registered under 'line' with name Line_F_S, and the   *)
(* dependency entry of L is {name: Line_F_S, dependencies: [(f,F),(s,S)]}. *)
C1_EndToEndLine ==
    pc = "done" =>
        \A i \in 1..Len(Lines) :
            LET L   == Lines[i][1]
                rec == Lines[i][2]
                f   == Attr(rec, "firstPoint")
                s   == Attr(rec, "secondPoint")
                F   == NameOf("point", f)
                S   == NameOf("point", s)
            IN  ( /\ L \in NativeIds
                  /\ 0 < Position(rec, "firstPoint")
                  /\ Position(rec, "firstPoint") < Position(rec, "secondPoint")
                  /\ f # s
                  /\ PointRegistered(f) /\ Earlier(f, L)
                  /\ PointRegistered(s) /\ Earlier(s, L) )
                => /\ Attr(rec, "name") = "Line_" \o F \o "_" \o S
                   /\ Get(dependencies, L, <<>>) =
                          << <<"name", "Line_" \o F \o "_" \o S>>,
                             <<"dependencies", << <<f, F>>, <<s, S>> >> >> >>

(* C2: categorize_line names a line Line_<firstName>_<secondName> for every *)
(* pair of endpoint ids that are both ids of registered points, also when   *)
(* both name the same point, and line<id> exactly when an endpoint          *)
(* attribute is missing or is not the id of a registered point.             *)
C2_LineNaming ==
    element.tag = "line" =>
        LET L == Attr(element.attrib, "id")
            f == Attr(element.attrib, "firstPoint")
            s == Attr(element.attrib, "secondPoint")
        IN  NameOf("line", L) =
                IF f # None /\ s # None /\ PointRegistered(f) /\ PointRegistered(s)
                THEN "Line_" \o NameOf("point", f) \o "_" \o NameOf("point", s)
                ELSE "line" \o L

(* C3: for an operation O with suffix X whose source and destination items  *)
(* are equally many and whose source items are all registered ids, each     *)
(* destination d_i is registered under the tag of s_i, named                *)
(* <name of s_i>X, with op = O and without an idObject attribute.           *)
C3_OperationExpansion ==
    ( /\ element.tag = "operation"
      /\ Len(element.source) = Len(element.destination)
      /\ \A i \in 1..Len(element.source) :
             element.source[i] \in RegisteredIds(objects_by_type) )
    => \A i \in 1..Len(element.destination) :
           LET tag == TagOf(element.source[i])
               rec == Record(objects_by_type, tag, element.destination[i])
           IN  /\ Registered(objects_by_type, tag, element.destination[i])
               /\ Attr(rec, "name") = Str(NameOf(tag, element.source[i]))
                                          \o Attr(element.attrib, "suffix")
               /\ Attr(rec, "op") = Attr(element.attrib, "id")
               /\ ~HasKey(rec, "idObject")

(* C4: when the source and destination lists of an operation differ in      *)
(* length, categorize_operation reports an error and registers no           *)
(* destination object, not even for the positions both lists cover.         *)
C4_MisalignedExpandsNothing ==
    (element.tag = "operation" /\ Len(element.source) # Len(element.destination))
    => /\ raised # None
       /\ \A i \in 1..Len(element.destination) :
              element.destination[i] \notin RegisteredIds(objects_by_type)

(* C9: every line synthesized for a point p is named                        *)
(* Line_<refName>_<thisName>, refName the registered name of the referenced *)
(* object and thisName the name under which p was registered.               *)
C9_SynthesizedLineNames ==
    \A i \in 1..Len(Lines) :
        LET rec == Lines[i][2]
            ref == Attr(rec, "firstPoint")
            p   == Attr(rec, "secondPoint")
        IN  Synthesized(Lines[i][1]) =>
                Attr(rec, "name") = "Line_" \o Str(NameOf(TagOf(ref), ref))
                                        \o "_" \o NameOf("point", p)

(* C10: the record of each synthesized line carries the implicit marker and *)
(* the record of each natively parsed line does not.                        *)
C10_ImplicitMarker ==
    \A i \in 1..Len(Lines) : Synthesized(Lines[i][1]) <=> HasKey(Lines[i][2], "implicit")

\* the synthesized lines of the registry that end in point p
LinesSynthesizedFor(p) ==
    { i \in 1..Len(Lines) :
          Synthesized(Lines[i][1]) /\ Attr(Lines[i][2], "secondPoint") = p }

\* the lines the claim expects of each construction kind
LinesOfKind(type) ==
    CASE type \in {"endLine", "lineIntersectAxis"} -> 1
      [] type \in {"intersectXY", "alongLine"} -> 2
      [] OTHER -> 0

\* a reference the lookup resolves to a usable name: it is present, it is the
\* id of an object registered under a tag of object_tags, and that object's
\* name is a non-empty string
Resolves(ref) ==
    /\ ref \notin {None, ""}
    /\ \E i \in 1..Len(object_tags) :
           /\ Registered(objects_by_type, object_tags[i], ref)
           /\ NameOf(object_tags[i], ref) \notin {None, ""}

\* C8 as the specification states it: the count depends on the kind alone.
C8_SynthesisCountsUnconditional ==
    element.tag = "point" =>
        Cardinality(LinesSynthesizedFor(Attr(element.attrib, "id")))
            = LinesOfKind(Attr(element.attrib, "type"))

(* C8: processing a point of kind endLine or lineIntersectAxis adds exactly *)
(* one line record when its basePoint resolves and none otherwise; a point  *)
(* of kind intersectXY or alongLine adds exactly two when its firstPoint    *)
(* and secondPoint both resolve and none otherwise; a point of any other    *)
(* kind adds none.                                                          *)
C8_SynthesisCounts ==
    element.tag = "point" =>
        LET type == Attr(element.attrib, "type")
            all_resolve ==
                IF type \in {"endLine", "lineIntersectAxis"}
                THEN Resolves(Attr(element.attrib, "basePoint"))
                ELSE /\ Resolves(Attr(element.attrib, "firstPoint"))
                     /\ Resolves(Attr(element.attrib, "secondPoint"))
        IN  Cardinality(LinesSynthesizedFor(Attr(element.attrib, "id")))
                = IF all_resolve THEN LinesOfKind(type) ELSE 0

\* an alongLine point whose two lines stand in the registry
C8_TwoLinesSynthesized ==
    /\ element.tag = "point"
    /\ Attr(element.attrib, "type") = "alongLine"
    /\ Cardinality(LinesSynthesizedFor(Attr(element.attrib, "id"))) = 2

\* the direct dependency ids of x in the graph main has built
DirectDependencyIds(x) ==
    LET pairs == Get(Get(dependencies, x, <<>>), "dependencies", <<>>)
    IN  { pairs[i][1] : i \in 1..Len(pairs) }

(* C6: on the graph the resolver builds, for all registered ids x and y, y  *)
(* is the dep_id of a pair of x's direct dependency list if and only if x   *)
(* is in the list find_variables_using_target(y) returns.                   *)
C6_ReverseLookup ==
    pc = "queried" =>
        \A x \in KeySet(dependencies) :
            target_var \in DirectDependencyIds(x)
                <=> \E i \in 1..Len(returned) : returned[i] = x

CycleAB == << <<"A", PyList(<<"B">>)>>, <<"B", PyList(<<"A">>)>> >>

CycleCall == dep_table = CycleAB /\ target_var = "A"

\* C5 as the specification states it: the closure of A on the cycle is {B}.
C5_CycleClosureWithoutA ==
    /\ [](CycleCall /\ pc = "done" => returned = {"B"})
    /\ (CycleCall ~> pc = "done")

(* C5: for the table with exactly the edges A->B and B->A,                  *)
(* find_variable_dependencies(A) terminates and returns {A, B}: the walk    *)
(* reaches A again through B and reports it.                                *)
C5_CycleClosure ==
    /\ [](CycleCall /\ pc = "done" => returned = {"A", "B"})
    /\ (CycleCall ~> pc = "done")

\* the call on the cycle has returned
C5_CycleReturned == CycleCall /\ pc = "done" /\ returned = {"A", "B"}

\* The tokenizer as the claim words it: the pieces are the maximal runs of
\* characters between split characters, in the order of the formula.
Runs(f, split) ==
    { r \in (1..Len(f)) \X (1..Len(f)) :
        /\ r[1] <= r[2]
        /\ \A k \in r[1]..r[2] : f[k] \notin split
        /\ r[1] = 1 \/ f[r[1] - 1] \in split
        /\ r[2] = Len(f) \/ f[r[2] + 1] \in split }

\* a piece without the whitespace around it
Trimmed(piece) ==
    LET inked == { k \in 1..Len(piece) : piece[k] \notin Whitespace }
    IN  IF inked = {} THEN <<>>
        ELSE SubSeq(piece, CHOOSE k \in inked : \A m \in inked : k <= m,
                           CHOOSE k \in inked : \A m \in inked : k >= m)

FunctionNames ==
    { <<"m", "a", "x">>, <<"m", "i", "n">>, <<"a", "b", "s">>, <<"s", "q", "r", "t">>,
      <<"s", "i", "n">>, <<"c", "o", "s">>, <<"t", "a", "n">>, <<"l", "o", "g">>,
      <<"e", "x", "p">> }

SameLetter(a, b) ==
    a = b \/ \E k \in 1..26 : {a, b} = {UpperCase[k], LowerCase[k]}

NamesFunction(piece) ==
    \E fn \in FunctionNames :
        Len(fn) = Len(piece) /\ \A k \in 1..Len(fn) : SameLetter(piece[k], fn[k])

DigitsAndDots(piece) ==
    \A k \in 1..Len(piece) :
        piece[k] \in {"0", "1", "2", "3", "4", "5", "6", "7", "8", "9", "."}

\* the runs whose piece is kept as a candidate
KeptRuns(f, split) ==
    { r \in Runs(f, split) :
        LET piece == Trimmed(SubSeq(f, r[1], r[2]))
        IN  piece # <<>> /\ ~NamesFunction(piece) /\ ~DigitsAndDots(piece) }

\* a piece that starts with 'AngleLine' without its first five characters
WithoutAngle(piece) ==
    IF Len(piece) >= 9 /\ SubSeq(piece, 1, 9) = <<"A", "n", "g", "l", "e", "L", "i", "n", "e">>
    THEN SubSeq(piece, 6, Len(piece)) ELSE piece

\* the candidates in formula order; angle tells whether the AngleLine rule applies
Candidates(f, split, angle) ==
    LET kept == KeptRuns(f, split)
        nth(n) == CHOOSE r \in kept : Cardinality({ q \in kept : q[1] < r[1] }) = n - 1
    IN  [n \in 1..Cardinality(kept) |->
            LET piece == Trimmed(SubSeq(f, nth(n)[1], nth(n)[2]))
            IN  IF angle THEN WithoutAngle(piece) ELSE piece]

TwelveCharacters == {"+", "-", "*", "/", "(", ")", "<", ">", "=", "?", ":", ";"}

ExampleCandidates == << <<"A">>, <<"B">>, <<"C">> >>

\* C7 as the claim words it, every kept piece being a candidate as it stands.
\* The claim's list of split characters can be read with or without the comma;
\* on a formula without a comma both readings say the same, which is this.
C7_TokenizerKeepsPieces ==
    (pc = "tokenized" /\ \A k \in 1..Len(formula) : formula[k] # ",") =>
        /\ returned = Candidates(formula, TwelveCharacters, FALSE)
        /\ formula = Example => returned = ExampleCandidates

(* C7: tokenizing a formula splits it on the twelve characters              *)
(* + - * / ( ) < > = ? : ; (the comma does not split), trims each piece,    *)
(* drops empty pieces, excludes every piece that is a math-function name    *)
(* compared case-insensitively or consists only of digits and dots, and     *)
(* keeps every other piece as a candidate, a piece that starts with         *)
(* 'AngleLine' without its first five characters; 'A+B*2-sin(C)' yields     *)
(* exactly A, B, C.                                                         *)
C7_Tokenizer ==
    pc = "tokenized" =>
        /\ returned = Candidates(formula, TwelveCharacters, TRUE)
        /\ formula = Example => returned = ExampleCandidates

\* the example formula has been tokenized
C7_ExampleTokenized ==
    pc = "tokenized" /\ formula = Example /\ returned = ExampleCandidates

(* C11: if an attribute of a spline whose key starts with 'point' holds a   *)
(* value that is not the id of a registered point, categorize_spline stops  *)
(* the run with an error and the spline is not registered; a spline is      *)
(* registered only when every one of its point references resolved.         *)
C11_SplineUnresolvedIsFatal ==
    element.tag = "spline" =>
        LET unresolved ==
                \E i \in 1..Len(element.attrib) :
                    /\ element.attrib[i][1] \in SplinePointAttributes
                    /\ ~PointRegistered(element.attrib[i][2])
        IN  unresolved =>
                /\ raised # None
                /\ ~Registered(objects_by_type, "spline", Attr(element.attrib, "id"))

\* the step of the walk that has handed a variable to its categorizer
VariableWalked == n_elements' = n_elements + 1 /\ element'.tag = "variable"

Variables == Get(objects_by_type, "variable", <<>>)

(* C12: a variable whose name begins with '#_' or '##' is skipped: the      *)
(* registry and the variable counter are unchanged by it.  Every other      *)
(* variable is registered under the next value of the descending counter,   *)
(* so the k-th registered variable of a run has id '-k', whatever number of *)
(* header variables precede it.                                             *)
C12_HeaderVariablesSkipped ==
    /\ [][ VariableWalked =>
             IF IsHeader(Attr(element'.attrib, "name"))
             THEN /\ objects_by_type' = objects_by_type
                  /\ var_id_counter' = var_id_counter
             ELSE /\ ~Registered(objects_by_type, "variable", ToString(var_id_counter))
                  /\ Registered(objects_by_type', "variable", ToString(var_id_counter))
                  /\ Len(Get(objects_by_type', "variable", <<>>)) = Len(Variables) + 1
                  /\ var_id_counter' = var_id_counter - 1 ]_vars
    /\ [](\A k \in 1..Len(Variables) : Variables[k][1] = ToString(-k))

\* a variable registered after a header variable was skipped
C12_RegisteredAfterHeader ==
    \E i \in 1..Len(document) : \E j \in (i + 1)..Len(document) :
        /\ document[i].tag = "variable" /\ IsHeader(Attr(document[i].attrib, "name"))
        /\ document[j].tag = "variable" /\ ~IsHeader(Attr(document[j].attrib, "name"))
        /\ Len(Variables) = 1
        /\ Variables[1][1] = "-1"

\* how many of the ids given out so far came from the counter
AllocationsOf(ids, counter) ==
    Cardinality({ i \in 1..Len(ids) : ids[i].counter = counter })

(* C13: over a whole run each id counter only moves in its own direction,   *)
(* by one with every allocation (block and measurement counters up, the     *)
(* variable counter down), and every allocation returns a value that no     *)
(* earlier allocation of the same counter returned, the measurement ids of  *)
(* the second pass included.                                                *)
C13_CountersMonotonic ==
    /\ [][ /\ Len(allocated') >= Len(allocated)
           /\ SubSeq(allocated', 1, Len(allocated)) = allocated
           /\ block_id_counter' - block_id_counter
                  = AllocationsOf(allocated', "block") - AllocationsOf(allocated, "block")
           /\ measurement_id_counter' - measurement_id_counter
                  = AllocationsOf(allocated', "measurement")
                        - AllocationsOf(allocated, "measurement")
           /\ var_id_counter - var_id_counter'
                  = AllocationsOf(allocated', "variable")
                        - AllocationsOf(allocated, "variable") ]_vars
    /\ [](\A i \in 1..Len(allocated) : \A j \in (i + 1)..Len(allocated) :
              allocated[i].counter = allocated[j].counter
                  => allocated[i].value # allocated[j].value)

\* a measurement id of the second pass after one of the first pass
C13_AllocatedInBothPasses ==
    /\ pc = "done"
    /\ \E i \in 1..Len(allocated) : \E j \in (i + 1)..Len(allocated) :
           /\ allocated[i] = Allocation("measurement", "m_id_1")
           /\ allocated[j] = Allocation("measurement", "2")

\* the ids of the registry, one entry per record
RegistryIds ==
    UNION { { <<t, objects_by_type[t][2][i][1]>> : i \in 1..Len(objects_by_type[t][2]) } :
                t \in 1..Len(objects_by_type) }

SynthesizedLineIds == { Lines[i][1] : i \in { k \in 1..Len(Lines) : Synthesized(Lines[k][1]) } }

AllocatedIds == { allocated[i].value : i \in 1..Len(allocated) }

(* C14: for a document whose native ids are distinct positive-integer       *)
(* strings, every id the engine produces itself (block ids, measurement ids *)
(* of either pass, variable ids, synthesized line ids) differs from every   *)
(* native id and from every engine-produced id of another kind, so that no  *)
(* id is shared by two objects of the run.                                  *)
C14_IdsUnique ==
    /\ AllocatedIds \cap NativeIds = {}
    /\ SynthesizedLineIds \cap AllocatedIds = {}
    /\ \A i \in 1..Len(allocated) : \A j \in 1..Len(allocated) :
           allocated[i].counter # allocated[j].counter
               => allocated[i].value # allocated[j].value
    /\ \A a \in RegistryIds : \A b \in RegistryIds : a[2] = b[2] => a[1] = b[1]

(* C15: in every reachable registry state every record has a name that is   *)
(* a non-empty string, whatever the element kind and its attributes: also a *)
(* point or variable whose name attribute is the empty string, and an       *)
(* operation without a suffix attribute.                                    *)
C15_NamesNonEmpty ==
    \A t \in 1..Len(objects_by_type) : \A i \in 1..Len(objects_by_type[t][2]) :
        LET rec == objects_by_type[t][2][i][2]
        IN  HasKey(rec, "name") /\ Attr(rec, "name") \notin {None, ""}

C17_LookupResult ==
    pc = "looked_up" =>
        /\ raised = None
        /\ returned = IF target_var \in RegisteredIds(objects_by_type)
                      THEN <<TagOf(target_var), NameOf(TagOf(target_var), target_var)>>
                      ELSE <<None, None>>

\* the edges of a table of lists
TableEdges(table) ==
    UNION { { <<table[k][1], table[k][2].value[i]>> : i \in 1..Len(table[k][2].value) } :
                k \in 1..Len(table) }

\* y is reached from x by following one or more edges
Reaches(table, x, y) ==
    \E n \in 2..(Cardinality(Nodes) + 1) : \E path \in [1..n -> Nodes] :
        /\ path[1] = x
        /\ path[n] = y
        /\ \A i \in 1..(n - 1) : <<path[i], path[i + 1]>> \in TableEdges(table)

(* C18: for every finite dependency table and every id x,                   *)
(* find_variable_dependencies(x) returns exactly the set of ids reachable   *)
(* from x by one or more dependency edges; a node met again on the current  *)
(* path is itself in the result, and x is in its own closure exactly when x *)
(* lies on a cycle.                                                         *)
C18_ClosureIsReachability ==
    /\ pc = "done" =>
           /\ returned = { y \in Nodes : Reaches(dep_table, target_var, y) }
           /\ target_var \in returned <=> Reaches(dep_table, target_var, target_var)
    /\ \A k \in 2..Len(call_stack) :
           call_stack[k].target_var \in call_stack[k - 1].all_deps

\* a call that returned an id it reaches through another one
C18_TransitiveDependency ==
    /\ pc = "done"
    /\ dep_table = << <<"A", PyList(<<"B">>)>>, <<"B", PyList(<<"C">>)>> >>
    /\ target_var = "A"
    /\ returned = {"B", "C"}

(* C19: find_variable_dependencies terminates for every finite table and    *)
(* every start id, with self-loops, cycles of any length and overlapping    *)
(* cycles, and leaves the table and the caller's state unchanged, so that a *)
(* second call with the same arguments returns the same set.                *)
C19_TerminatesAndRestartable ==
    /\ <>(pc = "done" /\ Len(results) = 2)
    /\ [](Len(results) = 2 => results[1] = results[2])
    /\ [][ /\ dep_table' = dep_table
           /\ target_var' = target_var
           /\ \A k \in 1..(Len(call_stack) - 1) :
                  k <= Len(call_stack') => call_stack'[k].visited = call_stack[k].visited ]_vars

\* both calls on a table with a self-loop inside a cycle have returned
C19_CalledTwiceOnCycles ==
    /\ pc = "done"
    /\ Len(results) = 2
    /\ dep_table = << <<"A", PyList(<<"A", "B">>)>>, <<"B", PyList(<<"A">>)>> >>
    /\ target_var = "A"

\* the objects of the registry in iteration order, as <<id, name>>
RECURSIVE RegistryOrder(_)
RegistryOrder(objs) ==
    IF objs = <<>> THEN <<>>
    ELSE [i \in 1..Len(Head(objs)[2]) |->
              <<Head(objs)[2][i][1], Attr(Head(objs)[2][i][2], "name")>>]
         \o RegistryOrder(Tail(objs))

\* the name tokens of a formula: those that reach the name search
NameTokens(attr_value) ==
    LET symbols == SymbolSegments(Segments(Characters(attr_value)))
    IN  { Join(symbols[i]) :
              i \in { k \in 1..Len(symbols) : ~find_in_csv_first_column(symbols[k]) } }

\* how many times the formula holds the token
Occurrences(attr_value, token) ==
    LET symbols == SymbolSegments(Segments(Characters(attr_value)))
    IN  Cardinality({ i \in 1..Len(symbols) : Join(symbols[i]) = token })

(* C20: a formula token that is not in the measurement catalog and equals   *)
(* the name of at least one registered object contributes exactly one       *)
(* dependency pair to the object's list: the pair of the first object with  *)
(* that name in registry-iteration order, even when objects under other     *)
(* tags carry the same name.                                                *)
C20_NameTokenOnePair ==
    pc = "done" =>
        \A v \in 1..Len(Variables) :
            LET obj_id  == Variables[v][1]
                written == Attr(Variables[v][2], "formula")
                order   == RegistryOrder(objects_by_type)
                pairs   == Get(Get(dependencies, obj_id, <<>>), "dependencies", <<>>)
            IN  written # None =>
                    \A token \in NameTokens(written) :
                        LET named == { i \in 1..Len(order) : order[i][2] = token }
                            first == CHOOSE i \in named : \A j \in named : i <= j
                            added == { k \in 1..Len(pairs) : pairs[k][2] = token }
                        IN  named # {} =>
                                /\ Cardinality(added) = Occurrences(written, token)
                                /\ \A k \in added : pairs[k] = <<order[first][1], token>>


\* the step of main's second pass: the walk is over and no element is read
SecondPass == pc = "categorize" /\ pc' # pc /\ document' = document

\* the pairs of the dependency entry of obj_id
PairsOf(deps, obj_id) == Get(Get(deps, obj_id, <<>>), "dependencies", <<>>)

\* every id of the registry objs is found by the global lookup, with its name
LookupFindsAll(objs) ==
    LET order == RegistryOrder(objs)
    IN  \A i \in 1..Len(order) :
            LET l == lookup_name_by_id(order[i][1], objs)
            IN  l.raised = None /\ l.obj_name = order[i][2]

\* every object of objs that an operation has produced lists that operation
DestinationsListOperation(objs, deps) ==
    LET order == RegistryOrder(objs)
    IN  \A t \in 1..Len(objs) : \A i \in 1..Len(objs[t][2]) :
            LET d  == objs[t][2][i][1]
                op == Attr(objs[t][2][i][2], "op")
            IN  op # None =>
                    \E o \in 1..Len(order) :
                        /\ order[o][1] = op
                        /\ \E k \in 1..Len(PairsOf(deps, d)) :
                               PairsOf(deps, d)[k] = <<op, order[o][2]>>

(* C21: the resolver's global-id lookup finds every id registered under any *)
(* tag of the registry, an operation's own record included whatever its     *)
(* type attribute is; hence, for every expanded operation with id O and     *)
(* suffix X, the dependency entry of each destination object contains the   *)
(* pair (O, X) obtained from its op attribute once the second pass has run. *)
C21_GlobalLookup ==
    /\ [](pc = "categorize" => LookupFindsAll(objects_by_type))
    /\ [][SecondPass => DestinationsListOperation(objects_by_type', dependencies')]_vars


\* the tokens of a formula that the measurement catalog holds, one entry per occurrence
CatalogTokens(attr_value) ==
    LET symbols == SymbolSegments(Segments(Characters(attr_value)))
    IN  SelectSeq([i \in 1..Len(symbols) |-> Join(symbols[i])],
                  LAMBDA token : \E c \in 1..Len(measurements_csv) : measurements_csv[c] = token)

\* the catalog tokens in the formulas of the records items
RECURSIVE CatalogTokenCount(_)
CatalogTokenCount(items) ==
    IF items = <<>> THEN 0
    ELSE (IF Attr(Head(items)[2], "formula") = None THEN 0
          ELSE Len(CatalogTokens(Attr(Head(items)[2], "formula"))))
         + CatalogTokenCount(Tail(items))

\* the measurement ids given out after the first before of ids
FreshMeasurementIds(ids, before) ==
    { ids[i].value : i \in { k \in (before + 1)..Len(ids) : ids[k].counter = "measurement" } }

(* C22: a formula token found in the measurement catalog is classified as a *)
(* measurement reference even when a registered object has the same name,   *)
(* and is recorded in the dependency list of the object that owns the       *)
(* formula as the pair (freshly allocated measurement id, token); the       *)
(* measurement counter advances by one per such token.                      *)
C22_MeasurementTokenRecorded ==
    [][ (SecondPass /\ pc' = "done") =>
          /\ measurement_id_counter' - measurement_id_counter = CatalogTokenCount(Variables)
          /\ \A v \in 1..Len(Variables) :
                 LET written == Attr(Variables[v][2], "formula")
                     pairs   == PairsOf(dependencies', Variables[v][1])
                 IN  written # None =>
                         \A c \in 1..Len(CatalogTokens(written)) :
                             LET token == CatalogTokens(written)[c]
                                 added == { k \in 1..Len(pairs) : pairs[k][2] = token }
                             IN  /\ Cardinality(added) = Occurrences(written, token)
                                 /\ \A k \in added :
                                        pairs[k][1] \in FreshMeasurementIds(allocated',
                                                                            Len(allocated)) ]_vars


\* the tags of objs that hold an object record, with their records
ObjectRecords(objs) == SelectSeq(objs, LAMBDA tagged : Len(tagged[2]) > 0)

\* the dependency graph deps has one entry per object of objs, under its name
OneEntryPerObject(objs, deps) ==
    LET order == RegistryOrder(objs)
    IN  /\ Len(deps) = Len(order)
        /\ \A i \in 1..Len(order) :
               /\ HasKey(deps, order[i][1])
               /\ Get(Get(deps, order[i][1], <<>>), "name", "?") = order[i][2]

\* every pair of deps is the id and the name of an object of objs
PairsAreRegistered(objs, deps) ==
    LET order == RegistryOrder(objs)
    IN  \A e \in 1..Len(deps) :
            \A k \in 1..Len(PairsOf(deps, deps[e][1])) :
                \E i \in 1..Len(order) : order[i] = PairsOf(deps, deps[e][1])[k]

====
